---- MODULE Spec2Model ----
(***************************************************************************)
(* SoloSafe (src/app.py): a Streamlit script over a SQLite store with two  *)
(* tables, locations and safety_reports.  Every script run executes        *)
(* seed_example_reports(), the dashboard block and then the tab whose      *)
(* button was pressed.  The model keeps the committed tables, the SQLite   *)
(* write lock, and for every browser session the position of its script    *)
(* run and the contents of its open SQLAlchemy session.                    *)
(*                                                                         *)
(* Text is modelled as a sequence of one-character strings, so that        *)
(* strip(), title(), ILIKE containment and lexical order are computed.     *)
(* A tag string is a sequence of symbols: a vocabulary word, "," or " ".   *)
(***************************************************************************)
EXTENDS Integers, Sequences, FiniteSets, TLC

\* ------------------------------------------------------------------ bounds

\* Submitting a report is offered while fewer reports than this are stored.
MaxReports == 4

\* Two browser sessions, whose script runs may interleave.
Sessions == {"A", "B"}

\* ------------------------------------------------------------------ text

\* Python's None for a text value: a one-element sequence that is no text.
None == <<"None">>

\* The id of an object that has not been flushed (Python's None).
NoId == 0

LowerCase ==
  <<"a","b","c","d","e","f","g","h","i","j","k","l","m",
    "n","o","p","q","r","s","t","u","v","w","x","y","z">>

UpperCase ==
  <<"A","B","C","D","E","F","G","H","I","J","K","L","M",
    "N","O","P","Q","R","S","T","U","V","W","X","Y","Z">>

\* The characters of the model in code-point order.
Alphabet == <<" ", ",">> \o UpperCase \o LowerCase

Range(f) == {f[i] : i \in DOMAIN f}

Ord == [c \in Range(Alphabet) |-> CHOOSE i \in DOMAIN Alphabet : Alphabet[i] = c]

UpperOf == [c \in Range(LowerCase) |->
              UpperCase[CHOOSE i \in DOMAIN LowerCase : LowerCase[i] = c]]

LowerOf == [c \in Range(UpperCase) |->
              LowerCase[CHOOSE i \in DOMAIN UpperCase : UpperCase[i] = c]]

ToUpper(c) == IF c \in DOMAIN UpperOf THEN UpperOf[c] ELSE c

ToLower(c) == IF c \in DOMAIN LowerOf THEN LowerOf[c] ELSE c

IsCased(c) == c \in DOMAIN UpperOf \/ c \in DOMAIN LowerOf

IsSpace(c) == c = " "

\* bool(x) of an optional text: None and "" are falsy.
Truthy(x) == x # None /\ x # <<>>

RECURSIVE LStrip(_)
LStrip(s) == IF s # <<>> /\ IsSpace(Head(s)) THEN LStrip(Tail(s)) ELSE s

RECURSIVE RStrip(_)
RStrip(s) ==
  IF s # <<>> /\ IsSpace(s[Len(s)]) THEN RStrip(SubSeq(s, 1, Len(s) - 1)) ELSE s

\* str.strip()
Strip(s) == RStrip(LStrip(s))

\* str.title(): a cased character is upper-cased after an uncased one (or at
\* the start) and lower-cased after a cased one.
Title(s) ==
  [i \in 1..Len(s) |->
     IF i = 1 \/ ~IsCased(s[i - 1]) THEN ToUpper(s[i]) ELSE ToLower(s[i])]

LowerStr(s) == [i \in 1..Len(s) |-> ToLower(s[i])]

Contains(hay, needle) ==
  \E i \in 0..(Len(hay) - Len(needle)) :
     SubSeq(hay, i + 1, i + Len(needle)) = needle

\* column.ilike("%" + pattern + "%"); a NULL column matches nothing.  The
\* alphabet holds neither of LIKE's wildcards.
ILikeContains(column, pattern) ==
  column # None /\ Contains(LowerStr(column), LowerStr(pattern))

\* Python's < on str.
LexLess(a, b) ==
  \E k \in 1..(Len(a) + 1) :
     /\ k <= Len(b)
     /\ \A j \in 1..(k - 1) : a[j] = b[j]
     /\ (k <= Len(a) => Ord[a[k]] < Ord[b[k]])

\* ------------------------------------------------------------------ helpers

NormalizeNeighborhood(neighborhood) ==
  IF Truthy(neighborhood)
    THEN LET n == Title(Strip(neighborhood)) IN IF n = <<>> THEN None ELSE n
    ELSE neighborhood

normalize_location(country, city, neighborhood) ==
  [country      |-> Title(Strip(country)),
   city         |-> Title(Strip(city)),
   neighborhood |-> NormalizeNeighborhood(neighborhood)]


\* ------------------------------------------------------------------ data

Str_Spain == <<"S","p","a","i","n">>

Str_Barcelona == <<"B","a","r","c","e","l","o","n","a">>

Str_ElRaval == <<"E","l"," ","R","a","v","a","l">>

Str_Japan == <<"J","a","p","a","n">>

Str_Tokyo == <<"T","o","k","y","o">>

Str_Shinjuku == <<"S","h","i","n","j","u","k","u">>

Str_Mexico == <<"M","e","x","i","c","o">>

Str_MexicoCity == Str_Mexico \o <<" ","C","i","t","y">>

Str_Condesa == <<"C","o","n","d","e","s","a">>

\* The example reports of seed_example_reports (body and initials are stored
\* and never read again; they are left out of the model's rows).
examples ==
  << [country |-> Str_Spain, city |-> Str_Barcelona, neighborhood |-> Str_ElRaval,
      score |-> 2, title |-> "Felt uneasy walking at night",
      tags |-> <<"harassment", ",", "night_transit">>],
     [country |-> Str_Japan, city |-> Str_Tokyo, neighborhood |-> Str_Shinjuku,
      score |-> 5, title |-> "Extremely safe even late at night",
      tags |-> <<"night_transit", ",", "other">>],
     [country |-> Str_Mexico, city |-> Str_MexicoCity, neighborhood |-> Str_Condesa,
      score |-> 4, title |-> "Generally safe but watch for scams",
      tags |-> <<"scams", ",", "other">>] >>

\* What the Add Report form can send: raw text as typed, a score and the
\* comma-joined tags.
SubmitForms ==
  { [country |-> <<" ","s","p","a","i","n"," ">>,
     city |-> <<" ","b","a","r","c","e","l","o","n","a">>,
     neighborhood |-> <<>>,
     score |-> 2, title |-> "city-wide", tags |-> <<>>],
    [country |-> <<"s","p","a","i","n">>,
     city |-> <<"b","a","r","c","e","l","o","n","a">>,
     neighborhood |-> <<"r","a","v","a","l">>,
     score |-> 3, title |-> "raval", tags |-> <<"harassment">>],
    [country |-> <<"g","r","e","e","c","e">>,
     city |-> <<"a","t","h","e","n","s">>,
     neighborhood |-> None,
     score |-> 2, title |-> "athens", tags |-> <<"scams", ",", " ", "other">>],
    [country |-> <<"c","r","o","a","t","i","a">>,
     city |-> <<"z","a","g","r","e","b">>,
     neighborhood |-> <<" "," ">>,
     score |-> 5, title |-> "zagreb", tags |-> <<"harassment">>] }

NoForm ==
  [country |-> <<>>, city |-> <<>>, neighborhood |-> None,
   score |-> 0, title |-> "", tags |-> <<>>]

NoKey == [country |-> <<>>, city |-> <<>>, neighborhood |-> None]

\* ------------------------------------------------------------------ state

VARIABLES
  locations,   \* committed rows of table locations, in id order
  reports,     \* committed rows of table safety_reports, in id order
  writer,      \* the session whose transaction holds SQLite's write lock
  pc,          \* per session: the position of its script run
  tx,          \* per session: its get_db() block and SQLAlchemy session
  out          \* per session: what its script run has rendered so far

vars == <<locations, reports, writer, pc, tx, out>>

NoWriter == "nobody"

NoTx ==
  [kind |-> "none", state |-> "none", count |-> 0, i |-> 0, form |-> NoForm,
   key |-> NoKey, newLocs |-> <<>>, flushed |-> <<>>, pending |-> <<>>,
   raised |-> "nowhere", closes |-> 0]

NotRendered == [kind |-> "none"]

NoOut == [dash |-> NotRendered, search |-> NotRendered]

Init ==
  /\ locations = <<>>
  /\ reports = <<>>
  /\ writer = NoWriter
  /\ pc = [s \in Sessions |-> "idle"]
  /\ tx = [s \in Sessions |-> NoTx]
  /\ out = [s \in Sessions |-> NoOut]

\* ------------------------------------------------------------------ store

RECURSIVE MaxId(_)
MaxId(rows) ==
  IF rows = <<>> THEN 0
  ELSE LET m == MaxId(Tail(rows)) IN IF Head(rows).id > m THEN Head(rows).id ELSE m

FlushIdUnassigned(rows) == NoId

\* The id an INSERT gives a new row: SQLite's max(rowid) + 1.
FlushId(rows) == MaxId(rows) + 1

\* The locations a session's queries see: the committed rows and the rows
\* its own transaction has flushed.
View(s) == locations \o tx[s].newLocs

SameLocation(a, b) ==
  a.country = b.country /\ a.city = b.city /\ a.neighborhood = b.neighborhood

SchemaAcceptsUnique(row, table) ==
  \A i \in DOMAIN table : ~SameLocation(table[i], row)

\* The tables accept a Location row when its NOT NULL columns are set; there
\* is no uniqueness constraint over (country, city, neighborhood).
SchemaAccepts(row, table) == row.country # None /\ row.city # None

\* db.flush() / the flush of db.commit(): every pending report is inserted.
AssignIds(pending, base) ==
  [k \in 1..Len(pending) |-> [pending[k] EXCEPT !.id = base + k]]

FlushReports(t) ==
  [t EXCEPT !.flushed = @ \o AssignIds(t.pending, MaxId(reports \o t.flushed)),
            !.pending = <<>>]

HasWrites(t) == t.newLocs # <<>> \/ t.flushed # <<>> \/ t.pending # <<>>

LockFreeFor(s) == writer \in {NoWriter, s}

\* ------------------------------------------------------------------ get_db

\* if db.query(SafetyReport).count() > 0: return
SeedSkipsInverted(count) == count < 0

SeedSkips(count) == count > 0

\* with get_db() as db: a new session, nothing written yet.
OpenTx(kind, form, count) ==
  [NoTx EXCEPT !.kind = kind, !.state = "open", !.form = form, !.count = count,
               !.i = IF kind = "seed" /\ ~SeedSkips(count) THEN 1 ELSE 0]

RollbackKeepsFlushed(committed, uncommitted) == committed \o uncommitted

\* What db.rollback() leaves of a table.
Rollback(committed, uncommitted) == committed

\* What db.commit() leaves of a table.
Commit(committed, uncommitted) == committed \o uncommitted

\* db.close(), and the session's objects are dropped.  What stays of the
\* block is how it ended and, of an exception, where it was raised.
Close(t, outcome, raised) ==
  [NoTx EXCEPT !.kind = t.kind, !.state = outcome, !.raised = raised,
               !.closes = t.closes + 1]

\* ------------------------------------------------------------------ resolver

ResolverCountryFilter(l, key) == l.country = key.country

MatchesLocation(l, key) ==
  /\ ResolverCountryFilter(l, key)
  /\ l.city = key.city
  /\ IF Truthy(key.neighborhood)
       THEN ILikeContains(l.neighborhood, key.neighborhood)
       ELSE l.neighborhood = None

\* query.first(): the id of the first matching row in rowid order, or NoId.
First(view, key) ==
  LET hits == {i \in DOMAIN view : MatchesLocation(view[i], key)}
  IN  IF hits = {} THEN NoId
      ELSE view[CHOOSE i \in hits : \A j \in hits : i <= j].id

CurrentInput(t) == IF t.kind = "seed" THEN examples[t.i] ELSE t.form

\* db.add(SafetyReport(location_id=loc.id, ...)): pending until a flush.
ReportFor(input, locId) ==
  [id |-> NoId, location_id |-> locId, safety_score |-> input.score,
   title |-> input.title, tags |-> input.tags]

\* The caller's statements after get_or_create_location returned locId: the
\* report is added, and the loop of seed_example_reports goes on or the
\* block ends.
AfterResolve(t, locId) ==
  LET more == t.kind = "seed" /\ t.i < Len(examples)
  IN  [t EXCEPT !.pending = Append(@, ReportFor(CurrentInput(t), locId)),
                !.key = NoKey,
                !.i = IF more THEN @ + 1 ELSE @]

PcAfterResolve(t) ==
  IF t.kind = "seed" /\ t.i < Len(examples) THEN "lookup" ELSE "exit"

\* ------------------------------------------------------------------ dashboard

\* SELECT ... FROM safety_reports JOIN locations has no ORDER BY: SQLite
\* returns the rows in the order of the table it scans.
QueryPlans == {"scan_reports", "scan_locations"}

LocationsWithId(id) == {i \in DOMAIN locations : locations[i].id = id}

RECURSIVE JoinReports(_)
JoinReports(rs) ==
  IF rs = <<>> THEN <<>>
  ELSE LET r    == Head(rs)
           hits == LocationsWithId(r.location_id)
       IN  (IF hits = {} THEN <<>>
            ELSE <<[report |-> r, location |-> locations[CHOOSE i \in hits : TRUE]]>>)
           \o JoinReports(Tail(rs))

ReportsAt(l) ==
  LET of == SelectSeq(reports, LAMBDA r : r.location_id = l.id)
  IN  [k \in 1..Len(of) |-> [report |-> of[k], location |-> l]]

RECURSIVE JoinLocations(_)
JoinLocations(ls) ==
  IF ls = <<>> THEN <<>> ELSE ReportsAt(Head(ls)) \o JoinLocations(Tail(ls))

\* db.query(SafetyReport).join(Location).all()
JoinedReports(plan) ==
  IF plan = "scan_reports" THEN JoinReports(reports) ELSE JoinLocations(locations)

RECURSIVE Sum(_)
Sum(xs) == IF xs = <<>> THEN 0 ELSE Head(xs) + Sum(Tail(xs))

\* a / n on numbers: the quotient as a fraction, or ZeroDivisionError.
Div(a, n) == [ok |-> n # 0, num |-> a, den |-> n]

\* Two quotients of integers compare as their floats do.
MeanLess(a, b) == a.num * b.den < b.num * a.den

MeanEq(a, b) == a.num * b.den = b.num * a.den

HasReportsUnchecked(rows) == TRUE

\* if reports:
HasReports(rows) == rows # <<>>

Scores(rows) == [k \in 1..Len(rows) |-> rows[k].report.safety_score]

\* str.split(",")
RECURSIVE Split(_)
Split(str) ==
  LET commas == {i \in DOMAIN str : str[i] = ","}
  IN  IF commas = {} THEN <<str>>
      ELSE LET i == CHOOSE c \in commas : \A d \in commas : c <= d
           IN  <<SubSeq(str, 1, i - 1)>> \o Split(SubSeq(str, i + 1, Len(str)))

\* if r.tags:
CountsTags(tags) == Truthy(tags)

TagTokenUnstripped(t) == t

\* t = t.strip()
TagToken(t) == Strip(t)

\* tag_counts[t] = tag_counts.get(t, 0) + 1
Increment(counts, t) ==
  IF t \in DOMAIN counts THEN [counts EXCEPT ![t] = @ + 1] ELSE counts @@ (t :> 1)

RECURSIVE CountTokens(_, _)
CountTokens(tokens, counts) ==
  IF tokens = <<>> THEN counts
  ELSE CountTokens(Tail(tokens), Increment(counts, TagToken(Head(tokens))))

RECURSIVE TagCounts(_, _)
TagCounts(rows, counts) ==
  IF rows = <<>> THEN counts
  ELSE LET tags == Head(rows).report.tags
       IN  TagCounts(Tail(rows),
                     IF CountsTags(tags) THEN CountTokens(Split(tags), counts)
                     ELSE counts)

\* f"{r.location.city}, {r.location.country}"
Label(l) == l.city \o <<",", " ">> \o l.country

\* loc_scores.setdefault(loc, []).append(r.safety_score): the groups in the
\* order of their first report.
RECURSIVE LocScores(_, _)
LocScores(rows, groups) ==
  IF rows = <<>> THEN groups
  ELSE LET loc   == Label(Head(rows).location)
           score == Head(rows).report.safety_score
           at    == {g \in DOMAIN groups : groups[g].loc = loc}
       IN  LocScores(Tail(rows),
             IF at = {} THEN Append(groups, [loc |-> loc, scores |-> <<score>>])
             ELSE [groups EXCEPT ![CHOOSE g \in at : TRUE].scores = Append(@, score)])

\* sorted(..., key=lambda x: x[1]): where x goes into a list already sorted,
\* after every element that does not come after it.
RiskBefore(a, x) == ~MeanLess(x.avg, a.avg)

InsertSorted(sorted, x) ==
  LET k == Cardinality({j \in DOMAIN sorted : RiskBefore(sorted[j], x)})
  IN  SubSeq(sorted, 1, k) \o <<x>> \o SubSeq(sorted, k + 1, Len(sorted))

RECURSIVE Sorted(_, _)
Sorted(items, sorted) ==
  IF items = <<>> THEN sorted
  ELSE Sorted(Tail(items), InsertSorted(sorted, Head(items)))

TopK == 5

\* sorted([(loc, sum(scores) / len(scores)) ...], key=...)[:5]
SortedRisk(rows) ==
  LET groups == LocScores(rows, <<>>)
      items  == [g \in 1..Len(groups) |->
                   [loc |-> groups[g].loc,
                    avg |-> Div(Sum(groups[g].scores), Len(groups[g].scores))]]
      all    == Sorted(items, <<>>)
  IN  SubSeq(all, 1, IF Len(all) < TopK THEN Len(all) ELSE TopK)

\* What the dashboard block renders from the rows of its query.
Summary(rows) ==
  IF HasReports(rows)
    THEN [kind |-> "summary",
          avg_score |-> Div(Sum(Scores(rows)), Len(rows)),
          tag_counts |-> TagCounts(rows, <<>>),
          sorted_risk |-> SortedRisk(rows)]
    ELSE [kind |-> "nodata"]

\* ------------------------------------------------------------------ search

\* The concerns the forms offer.
Vocabulary ==
  {"harassment", "pickpocketing", "night_transit", "accommodation",
   "rideshare", "police_response", "scams", "catcalling", "other"}

\* What the Search form can send.
SearchForms ==
  { [country |-> <<>>, city |-> <<"b","a","r","c","e","l","o","n","a">>],
    [country |-> <<"s","p","a","i","n">>, city |-> <<"b","a","r","c","e","l","o","n","a">>],
    [country |-> <<"p","a","i","n">>, city |-> <<"b","a","r","c","e","l","o","n","a">>] }

\* Location.country.ilike(f"%{country.strip().title()}%")
SearchCountryFilter(l, country) == ILikeContains(l.country, Title(Strip(country)))

SearchResult(form) ==
  IF ~Truthy(form.country) \/ ~Truthy(form.city)
    THEN [kind |-> "warning"]
    ELSE [kind |-> "results",
          ids |-> {locations[i].id : i \in
                     {j \in DOMAIN locations :
                        SearchCountryFilter(locations[j], form.country)}}]

\* ------------------------------------------------------------------ actions

\* A script run starts: seed_example_reports() opens its block and counts
\* the stored reports; with any it returns at once.
RunScript(s) ==
  /\ pc[s] = "idle"
  /\ LET count == Len(reports)
     IN  /\ tx' = [tx EXCEPT ![s] = OpenTx("seed", NoForm, count)]
         /\ pc' = [pc EXCEPT ![s] = IF SeedSkips(count) THEN "exit" ELSE "lookup"]
  /\ UNCHANGED <<locations, reports, writer, out>>

\* get_or_create_location up to query.first(); a hit returns the row.
Lookup(s) ==
  /\ pc[s] = "lookup"
  /\ LET t     == tx[s]
         input == CurrentInput(t)
         key   == normalize_location(input.country, input.city, input.neighborhood)
         found == First(View(s), key)
     IN  IF found # NoId
           THEN /\ tx' = [tx EXCEPT ![s] = AfterResolve(t, found)]
                /\ pc' = [pc EXCEPT ![s] = PcAfterResolve(t)]
           ELSE /\ tx' = [tx EXCEPT ![s].key = key]
                /\ pc' = [pc EXCEPT ![s] = "insert"]
  /\ UNCHANGED <<locations, reports, writer, out>>

\* get_or_create_location after a miss: db.add(loc); db.flush(); return loc.
\* The INSERT takes SQLite's write lock, which the transaction then holds.
CreateLocation(s) ==
  /\ pc[s] = "insert"
  /\ LockFreeFor(s)
  /\ LET t   == tx[s]
         loc == [id |-> FlushId(View(s)), country |-> t.key.country,
                 city |-> t.key.city, neighborhood |-> t.key.neighborhood]
         t1  == FlushReports([t EXCEPT !.newLocs = Append(@, loc)])
     IN  /\ SchemaAccepts(loc, View(s))
         /\ tx' = [tx EXCEPT ![s] = AfterResolve(t1, loc.id)]
         /\ pc' = [pc EXCEPT ![s] = PcAfterResolve(t)]
  /\ writer' = s
  /\ UNCHANGED <<locations, reports, out>>

\* Where a script run goes after its block: from the seeding to the
\* dashboard, from the dashboard to the tabs, from a tab to its end.
PcAfterBlock(t) ==
  IF t.kind = "seed" THEN "dashboard"
  ELSE IF t.kind = "dashboard" THEN "tabs"
  ELSE "done"

\* The block ended normally: db.commit() flushes what is pending and
\* commits, then db.close().
Exit(s) ==
  /\ pc[s] = "exit"
  /\ HasWrites(tx[s]) => LockFreeFor(s)
  /\ LET t == FlushReports(tx[s])
     IN  /\ locations' = Commit(locations, t.newLocs)
         /\ reports' = Commit(reports, t.flushed)
         /\ tx' = [tx EXCEPT ![s] = Close(t, "committed", "nowhere")]
         /\ pc' = [pc EXCEPT ![s] = PcAfterBlock(t)]
  /\ writer' = IF writer = s THEN NoWriter ELSE writer
  /\ UNCHANGED out

\* A statement of the block, or db.commit() itself, raises (a lock wait
\* that timed out, a lost connection): db.rollback(), db.close(), and the
\* exception ends the script run.
Raise(s) ==
  /\ pc[s] \in {"lookup", "insert", "exit"}
  /\ LET t == tx[s]
     IN  /\ locations' = Rollback(locations, t.newLocs)
         /\ reports' = Rollback(reports, t.flushed \o t.pending)
         /\ tx' = [tx EXCEPT ![s] =
                     Close(t, "rolledback", IF pc[s] = "exit" THEN "commit" ELSE "block")]
  /\ pc' = [pc EXCEPT ![s] = "done"]
  /\ writer' = IF writer = s THEN NoWriter ELSE writer
  /\ UNCHANGED out

\* The Add Report button with every required field filled in: the form's
\* block is entered.
SubmitReport(s) ==
  /\ pc[s] = "tabs"
  /\ Len(reports) < MaxReports
  /\ \E form \in SubmitForms :
        tx' = [tx EXCEPT ![s] = OpenTx("submit", form, 0)]
  /\ pc' = [pc EXCEPT ![s] = "lookup"]
  /\ UNCHANGED <<locations, reports, writer, out>>

\* The script run is over (with no button pressed, after the pressed
\* button's tab, or on an exception): nothing of it stays but the store.
Finish(s) ==
  /\ pc[s] \in {"tabs", "done"}
  /\ pc' = [pc EXCEPT ![s] = "idle"]
  /\ tx' = [tx EXCEPT ![s] = NoTx]
  /\ out' = [out EXCEPT ![s] = NoOut]
  /\ UNCHANGED <<locations, reports, writer>>

\* The dashboard block up to its end: one query, the three aggregates,
\* rendered.
Dashboard(s) ==
  /\ pc[s] = "dashboard"
  /\ \E plan \in QueryPlans :
        out' = [out EXCEPT ![s].dash = Summary(JoinedReports(plan))]
  /\ tx' = [tx EXCEPT ![s] = OpenTx("dashboard", NoForm, 0)]
  /\ pc' = [pc EXCEPT ![s] = "exit"]
  /\ UNCHANGED <<locations, reports, writer>>

\* The Search button: the warning, or the block with the query's filter on
\* the country.
Search(s) ==
  /\ pc[s] = "tabs"
  /\ \E form \in SearchForms :
        LET result == SearchResult(form)
        IN  /\ out' = [out EXCEPT ![s].search = result]
            /\ IF result.kind = "warning"
                 THEN /\ pc' = [pc EXCEPT ![s] = "done"]
                      /\ tx' = tx
                 ELSE /\ pc' = [pc EXCEPT ![s] = "exit"]
                      /\ tx' = [tx EXCEPT ![s] = OpenTx("search", NoForm, 0)]
  /\ UNCHANGED <<locations, reports, writer>>

Step(s) ==
  \/ RunScript(s)
  \/ Lookup(s)
  \/ CreateLocation(s)
  \/ Exit(s)
  \/ Raise(s)
  \/ Dashboard(s)
  \/ Search(s)
  \/ SubmitReport(s)
  \/ Finish(s)

Next == \E s \in Sessions : Step(s)

Spec == Init /\ [][Next]_vars

\* Script runs one after another: a run starts and goes on only while every
\* other session is between runs.
NextSeq == \E s \in Sessions : (\A o \in Sessions \ {s} : pc[o] = "idle") /\ Step(s)

SpecSeq == Init /\ [][NextSeq]_vars

\* ------------------------------------------------------------------ claims

\* A session's get_or_create_location has just run its query.
Looked(s) == pc[s] = "lookup" /\ tx'[s] # tx[s] /\ tx'[s].state = "open"

LookupKey(t) ==
  LET input == CurrentInput(t)
  IN  normalize_location(input.country, input.city, input.neighborhood)

\* An earlier call with the same input has left its row in the view.
CreatedFor(view, key) == \E i \in DOMAIN view : SameLocation(view[i], key)

\* C1: get_or_create_location is idempotent: a call whose input an earlier
\* call has already created a row for (nothing written in between) finds a
\* row and adds none, whatever the neighborhood: None, "", blank or a name.
C1_ResolveIdempotent ==
  [][\A s \in Sessions :
       (Looked(s) /\ CreatedFor(View(s), LookupKey(tx[s]))) => pc'[s] # "insert"]_vars

IsBlank(text) == text # None /\ Strip(text) = <<>>

\* C2: normalize_location collapses every empty or whitespace-only
\* neighborhood to None: the key a lookup just computed from such an input
\* has a None neighborhood.
C2_BlankNeighborhoodIsNone ==
  \A s \in Sessions :
     (pc[s] = "insert" /\ IsBlank(CurrentInput(tx[s]).neighborhood))
        => tx[s].key.neighborhood = None

Payload(r) ==
  [location_id |-> r.location_id, safety_score |-> r.safety_score,
   title |-> r.title, tags |-> r.tags]

Payloads(rs) == [k \in 1..Len(rs) |-> Payload(rs[k])]

\* C3: every get_db block is all-or-nothing: the step that ends it either
\* commits every write of the block (flushed locations, flushed and pending
\* reports) or, when the block or its commit raised, leaves both tables as
\* they were and propagates the exception; either way the session is closed
\* exactly once.
C3_AllOrNothing ==
  [][\A s \in Sessions :
       (tx[s].state = "open" /\ tx'[s].state # "open") =>
          /\ tx[s].closes = 0
          /\ tx'[s].closes = 1
          /\ \/ /\ tx'[s].state = "committed"
                /\ tx'[s].raised = "nowhere"
                /\ locations' = locations \o tx[s].newLocs
                /\ Payloads(reports') =
                     Payloads(reports \o tx[s].flushed \o tx[s].pending)
             \/ /\ tx'[s].state = "rolledback"
                /\ tx'[s].raised # "nowhere"
                /\ pc'[s] = "done"
                /\ locations' = locations
                /\ reports' = reports]_vars

\* A seeding block that had flushed its three locations raised at its
\* commit, and the store is still empty.
C3_Witness ==
  \E s \in Sessions :
     /\ tx[s].kind = "seed"
     /\ tx[s].state = "rolledback"
     /\ tx[s].raised = "commit"
     /\ tx[s].closes = 1
     /\ locations = <<>>
     /\ reports = <<>>

\* C4: in every committed state every report's location_id is the id of a
\* stored Location: never None, never dangling.
C4_ReportsReferenceLocations ==
  \A k \in DOMAIN reports :
     /\ reports[k].location_id # NoId
     /\ LocationsWithId(reports[k].location_id) # {}

\* A submitted report is stored with the Location its own block created.
C4_Witness ==
  \E k \in DOMAIN reports :
     /\ reports[k].title = "athens"
     /\ \E i \in LocationsWithId(reports[k].location_id) :
           locations[i].city = <<"A","t","h","e","n","s">>

RiskOrdered(a, b) ==
  \/ MeanLess(a.avg, b.avg)
  \/ MeanEq(a.avg, b.avg) /\ LexLess(a.loc, b.loc)

\* C5: the risk ranking holds at most 5 groups, one per label, ascending by
\* mean score, and groups of equal mean in the lexical order of their
\* labels, whatever the order the reports were inserted in.
C5_RiskRankingOrder ==
  \A plan \in QueryPlans :
     LET ranking == SortedRisk(JoinedReports(plan))
     IN  /\ Len(ranking) <= TopK
         /\ \A i, j \in DOMAIN ranking :
               i < j => RiskOrdered(ranking[i], ranking[j])

\* C6: the search passes a location on its country exactly when the
\* resolver does for the same input.
C6_SearchMatchesLikeResolver ==
  \A form \in SearchForms :
     Truthy(form.country) =>
       \A i \in DOMAIN locations :
          SearchCountryFilter(locations[i], form.country)
            <=> ResolverCountryFilter(locations[i],
                  normalize_location(form.country, form.city, None))

\* C7: the aggregation never divides by zero: over no report it renders the
\* no-data outcome and computes no mean; over any report the global mean
\* and every location's mean have a positive number of scores.
C7_NoDivisionByZero ==
  \A plan \in QueryPlans :
     LET d == Summary(JoinedReports(plan))
     IN  IF reports = <<>>
           THEN d.kind = "nodata"
           ELSE /\ d.kind = "summary"
                /\ d.avg_score.ok
                /\ d.avg_score.den = Len(reports)
                /\ \A i \in DOMAIN d.sorted_risk : d.sorted_risk[i].avg.ok

\* A dashboard was rendered over stored reports, one location having two.
C7_Witness ==
  \E s \in Sessions :
     /\ out[s].dash.kind = "summary"
     /\ out[s].dash.avg_score.den > 0
     /\ \E i \in DOMAIN out[s].dash.sorted_risk :
           out[s].dash.sorted_risk[i].avg.den = 2

Occurrences(word, tags) == Cardinality({i \in DOMAIN tags : tags[i] = word})

RECURSIVE TotalOccurrences(_, _)
TotalOccurrences(word, rows) ==
  IF rows = <<>> THEN 0
  ELSE Occurrences(word, Head(rows).report.tags) + TotalOccurrences(word, Tail(rows))

\* C8: tag_counts[t] is the number of occurrences of tag t in the tag
\* strings of all reports, tokens trimmed; a tag that occurs is counted, and
\* a report without tags adds no key.
C8_TagCounts ==
  \A plan \in QueryPlans :
     LET rows   == JoinedReports(plan)
         counts == TagCounts(rows, <<>>)
     IN  /\ \A t \in DOMAIN counts :
               /\ Len(t) = 1
               /\ t[1] \in Vocabulary
               /\ counts[t] = TotalOccurrences(t[1], rows)
         /\ \A word \in Vocabulary :
               TotalOccurrences(word, rows) > 0 => <<word>> \in DOMAIN counts

\* A dashboard counted "other" three times, once from a token with a blank
\* before it, over reports one of which has no tags.
C8_Witness ==
  \E s \in Sessions :
     /\ out[s].dash.kind = "summary"
     /\ <<"other">> \in DOMAIN out[s].dash.tag_counts
     /\ out[s].dash.tag_counts[<<"other">>] = 3
     /\ \E k \in DOMAIN reports : reports[k].tags = <<>>

\* C9: nothing stops the insert of a resolver whose lookup missed: once the
\* write lock is free it goes through, whatever rows were committed since.
C9_InsertNeverRefused ==
  \A s \in Sessions :
     (pc[s] = "insert" /\ LockFreeFor(s)) => ENABLED CreateLocation(s)

\* Two stored locations with the same country, city and neighborhood (a
\* name or None), each inserted after a lookup that missed.
C9_Witness ==
  \E i, j \in DOMAIN locations :
     /\ i < j
     /\ SameLocation(locations[i], locations[j])
     /\ locations[i].neighborhood # <<>>
     /\ locations[i].id # locations[j].id

\* C10: in script runs one after another, while a seeding block is open
\* over a store that holds a report, no step changes the stored locations
\* or reports.
C10_SeedOnlyWhenEmpty ==
  [][((\E s \in Sessions : tx[s].kind = "seed" /\ tx[s].state = "open")
        /\ reports # <<>>)
       => UNCHANGED <<locations, reports>>]_vars

\* A run's seeding block has ended normally over a store that holds more
\* than the examples: it found them and returned.
C10_Witness ==
  \E s \in Sessions :
     /\ pc[s] = "dashboard"
     /\ tx[s].kind = "seed"
     /\ tx[s].state = "committed"
     /\ tx[s].closes = 1
     /\ Len(reports) > Len(examples)

====
